---- MODULE Spec2Model ----
(***************************************************************************)
(* Model of CodeReviewAssistant (src/review_logic.py): the three analyzers *)
(* run by analyze_file over the text of a file and over its syntax tree,   *)
(* the issues_found dictionary they fill, and generate_review.             *)
(*                                                                         *)
(* A source text is a sequence of tokens.  "NL" is a newline, "SP" any     *)
(* other whitespace character, "HASH" the character #, "KW" one of the     *)
(* words def|class|if|for|while|return, "W" any other run of word          *)
(* characters, "P" any other characters, "CRED" a whole match of           *)
(* password_pattern and "SQL" a whole match of sql_pattern (both start     *)
(* with a word character).                                                 *)
(*                                                                         *)
(* ast.parse is not modelled: what it returns for a text is part of the    *)
(* input, either a tree or a SyntaxError.  A tree is the sequence of its   *)
(* statement nodes in source order, tree[i].parent being the node whose    *)
(* body holds node i (0 is the Module node) and tree[i].lineno its line.   *)
(* Expression nodes hold no statement and are left out.                    *)
(***************************************************************************)
EXTENDS Integers, Sequences, FiniteSets, TLC

VARIABLES fs, templates, issues_found, heap, calls, review

vars == <<fs, templates, issues_found, heap, calls, review>>

\* ------------------------------------------------------------------ bounds
MaxCalls == 3
MaxLen == 4
MaxNodes == 3
MaxIssues == 2

\* ------------------------------------------------------------ source text
Tokens == {"NL", "SP", "HASH", "KW", "W", "P", "CRED", "SQL"}

\* \s of the regular expressions: newline is whitespace too
IsSpace(t) == t \in {"NL", "SP"}

\* \w: the first character of the token is a word character
IsWord(t) == t \in {"KW", "W", "CRED", "SQL"}

RECURSIVE CountNL(_, _)
\* code[:p].count('\n') for the 0-based offset p, i.e. over tokens 1..p
CountNL(text, p) ==
    IF p = 0 THEN 0
    ELSE CountNL(text, p - 1) + (IF text[p] = "NL" THEN 1 ELSE 0)

\* line_number = code[:match.start()].count('\n') + 1, start being the
\* 1-based position of the first token of the match
LineOfOffset(text, start) == CountNL(text, start - 1) + 1

RECURSIVE SkipSpace(_, _)
\* greedy \s* from position p: the first position that holds no whitespace
SkipSpace(text, p) ==
    IF p <= Len(text) /\ IsSpace(text[p]) THEN SkipSpace(text, p + 1) ELSE p

\* ^ under re.MULTILINE: at the start of the text or right after a newline
AtLineStart(text, p) == p = 1 \/ text[p - 1] = "NL"

\* the position of the # of a match of commented_code_pattern starting at p
HashOfMatch(text, p) == SkipSpace(text, p)

\* the position of the keyword of a match of commented_code_pattern at p
KeywordOfMatch(text, p) == SkipSpace(text, HashOfMatch(text, p) + 1)

\* ^\s*#\s*(def|class|if|for|while|return)\b matches starting at position p
CommentedCodeMatchAt(text, p) ==
    /\ p <= Len(text)
    /\ AtLineStart(text, p)
    /\ HashOfMatch(text, p) <= Len(text)
    /\ text[HashOfMatch(text, p)] = "HASH"
    /\ KeywordOfMatch(text, p) <= Len(text)
    /\ text[KeywordOfMatch(text, p)] = "KW"
    /\ \/ KeywordOfMatch(text, p) = Len(text)
       \/ ~IsWord(text[KeywordOfMatch(text, p) + 1])

RECURSIVE CommentedCodeMatches(_, _)
\* finditer: the start positions of the successive non-overlapping matches
\* found scanning from position pos
CommentedCodeMatches(text, pos) ==
    IF pos > Len(text) THEN <<>>
    ELSE IF CommentedCodeMatchAt(text, pos)
         THEN <<pos>> \o CommentedCodeMatches(text, KeywordOfMatch(text, pos) + 1)
         ELSE CommentedCodeMatches(text, pos + 1)

RECURSIVE TokenMatches(_, _, _)
\* finditer of a pattern whose whole match is the token tok
TokenMatches(text, tok, pos) ==
    IF pos > Len(text) THEN <<>>
    ELSE IF text[pos] = tok
         THEN <<pos>> \o TokenMatches(text, tok, pos + 1)
         ELSE TokenMatches(text, tok, pos + 1)

\* ------------------------------------------------------------ syntax tree
\* identifiers, with the character classes of their characters
Names ==
    { [id |-> "process_data", chars |-> <<"lower", "under", "lower">>],
      [id |-> "MyFunction", chars |-> <<"upper", "lower", "upper", "lower">>],
      [id |-> "myClass", chars |-> <<"lower", "upper", "lower">>] }

NoName == [id |-> "", chars |-> <<>>]

\* re.match(r'^[a-z][a-z0-9_]*$', name)
IsSnakeCase(name) ==
    /\ Len(name.chars) >= 1
    /\ name.chars[1] = "lower"
    /\ \A i \in 2..Len(name.chars) : name.chars[i] \in {"lower", "digit", "under"}

\* re.match(r'^[A-Z][a-zA-Z0-9]*$', name)
IsPascalCase(name) ==
    /\ Len(name.chars) >= 1
    /\ name.chars[1] = "upper"
    /\ \A i \in 2..Len(name.chars) : name.chars[i] \in {"lower", "upper", "digit"}

\* the statement nodes the analyzers tell apart; "Expr" is any simple statement
CompoundKinds == {"FunctionDef", "ClassDef", "For", "While"}

LoopKinds == {"For", "While"}

NodeLabels ==
    { [kind |-> k, name |-> n] : k \in {"FunctionDef", "ClassDef"}, n \in Names }
    \cup { [kind |-> k, name |-> NoName] : k \in {"For", "While", "Expr"} }

Node(parent, label, lineno) ==
    [parent |-> parent, kind |-> label.kind, name |-> label.name, lineno |-> lineno]

RECURSIVE Ancestors(_, _)
\* the proper ancestors of node i, the Module node 0 included
Ancestors(tree, i) ==
    IF i = 0 THEN {} ELSE {tree[i].parent} \cup Ancestors(tree, tree[i].parent)

\* nodes are numbered in source order: a node opens the body of the node
\* before it or follows the body of one of that node's ancestors
IsTree(tree) ==
    \A i \in 1..Len(tree) :
        /\ tree[i].parent \in 0..(i - 1)
        /\ i > 1 => tree[i].parent \in {i - 1} \cup Ancestors(tree, i - 1)
        /\ tree[i].parent > 0 => tree[tree[i].parent].kind \in CompoundKinds
        /\ tree[i].lineno >= 1
        /\ i > 1 => tree[i].lineno > tree[i - 1].lineno

\* the parent of every node of a tree of n nodes, numbered in source order
ParentMaps(n) ==
    { par \in [1..n -> 0..(n - 1)] :
        IsTree([i \in 1..n |-> Node(par[i], [kind |-> "For", name |-> NoName], i)]) }

TreesOfSize(n) ==
    { tree \in { [i \in 1..n |-> Node(par[i], lab[i], i)] :
                    par \in ParentMaps(n), lab \in [1..n -> NodeLabels] } :
        IsTree(tree) }

Trees(maxNodes) == UNION { TreesOfSize(n) : n \in 0..maxNodes }

\* node.lineno
Lineno(tree, i) == tree[i].lineno

RECURSIVE ChildrenFrom(_, _, _)
\* ast.iter_child_nodes(node): the children of node i in source order
ChildrenFrom(tree, i, j) ==
    IF j > Len(tree) THEN <<>>
    ELSE (IF tree[j].parent = i THEN <<j>> ELSE <<>>) \o ChildrenFrom(tree, i, j + 1)

Children(tree, i) == ChildrenFrom(tree, i, 1)

RECURSIVE WalkQueue(_, _)
\* ast.walk: pop the first node of the queue, queue its children, yield it
WalkQueue(tree, todo) ==
    IF todo = <<>> THEN <<>>
    ELSE <<Head(todo)>> \o WalkQueue(tree, Tail(todo) \o Children(tree, Head(todo)))

\* ast.walk(node)
Walk(tree, node) == WalkQueue(tree, <<node>>)

\* isinstance(node, cls) for the Module node 0 and the statement nodes
IsInstance(tree, i, kind) == i > 0 /\ tree[i].kind = kind

\* ast.parse(code): a tree, or SyntaxError(msg, lineno); lineno 0 is None
Parsed(tree) == [ok |-> TRUE, tree |-> tree, msg |-> "", lineno |-> 0]

SyntaxError(msg, lineno) == [ok |-> FALSE, tree |-> <<>>, msg |-> msg, lineno |-> lineno]

Code(text, parse) == [text |-> text, parse |-> parse]

\* ---------------------------------------------------------------- findings
Categories == {"general", "security", "performance"}

EmptyIssues == [c \in Categories |-> <<>>]

Finding(type, message, line, severity) ==
    [type |-> type, message |-> message, line |-> line, severity |-> severity]

\* self.issues_found[bucket].append(...) for each of the findings
AppendIssues(issues, bucket, findings) ==
    [issues EXCEPT ![bucket] = @ \o findings]

\* --------------------------------------------------------------- analyzers
\* the for loop over commented_code_matches
CommentedCodeFindings(text) ==
    LET matches == CommentedCodeMatches(text, 1)
    IN  [ i \in 1..Len(matches) |->
            Finding("commented_code", <<"Commented out code should be removed">>,
                    LineOfOffset(text, matches[i]), "minor") ]

\* the body of the loop over ast.walk(parsed) for one node
NamingFindingsOfNode(tree, node) ==
    IF IsInstance(tree, node, "FunctionDef")
    THEN IF ~IsSnakeCase(tree[node].name)
         THEN << Finding("naming_convention",
                         <<"Function name '", tree[node].name.id,
                           "' doesn't follow snake_case convention">>,
                         Lineno(tree, node), "minor") >>
         ELSE <<>>
    ELSE IF IsInstance(tree, node, "ClassDef")
    THEN IF ~IsPascalCase(tree[node].name)
         THEN << Finding("naming_convention",
                         <<"Class name '", tree[node].name.id,
                           "' doesn't follow PascalCase convention">>,
                         Lineno(tree, node), "minor") >>
         ELSE <<>>
    ELSE <<>>

RECURSIVE NamingFindingsOver(_, _, _)
NamingFindingsOver(tree, order, i) ==
    IF i > Len(order) THEN <<>>
    ELSE NamingFindingsOfNode(tree, order[i]) \o NamingFindingsOver(tree, order, i + 1)

\* for node in ast.walk(parsed): the naming checks
NamingFindings(tree) == NamingFindingsOver(tree, Walk(tree, 0), 1)

\* except SyntaxError as e
SyntaxErrorFinding(e) ==
    Finding("syntax_error", <<"Syntax error: ", e.msg>>, e.lineno, "critical")

\* analyze_general_issues with an except clause that only passes
analyze_general_issues_SilentSyntaxError(issues, code) ==
    LET commented == AppendIssues(issues, "general", CommentedCodeFindings(code.text))
    IN  IF code.parse.ok
        THEN AppendIssues(commented, "general", NamingFindings(code.parse.tree))
        ELSE commented

analyze_general_issues(issues, code) ==
    LET commented == AppendIssues(issues, "general", CommentedCodeFindings(code.text))
    IN  IF code.parse.ok
        THEN AppendIssues(commented, "general", NamingFindings(code.parse.tree))
        ELSE AppendIssues(commented, "general", <<SyntaxErrorFinding(code.parse)>>)

\* the for loop over password_matches
CredentialFindings(text) ==
    LET matches == TokenMatches(text, "CRED", 1)
    IN  [ i \in 1..Len(matches) |->
            Finding("hardcoded_credentials", <<"Hardcoded credentials detected">>,
                    LineOfOffset(text, matches[i]), "critical") ]

\* the for loop over sql_matches
SqlFindings(text) ==
    LET matches == TokenMatches(text, "SQL", 1)
    IN  [ i \in 1..Len(matches) |->
            Finding("sql_injection",
                    <<"Potential SQL injection vulnerability detected">>,
                    LineOfOffset(text, matches[i]), "critical") ]

\* analyze_security_issues appending the SQL findings to the general bucket
analyze_security_issues_WrongBucket(issues, code) ==
    AppendIssues(AppendIssues(issues, "security", CredentialFindings(code.text)),
                 "general", SqlFindings(code.text))

analyze_security_issues(issues, code) ==
    AppendIssues(AppendIssues(issues, "security", CredentialFindings(code.text)),
                 "security", SqlFindings(code.text))

\* isinstance(node, ast.For): the node class the loop check looks for
IsLoopNode(tree, node) == IsInstance(tree, node, "For")

\* for child in ast.walk(node): ... break -- one finding at the first child
\* that is a loop and is not node, none if there is no such child
NestedLoopFindingsOfNode(tree, node) ==
    IF /\ IsLoopNode(tree, node)
       /\ \E k \in 1..Len(Walk(tree, node)) :
            /\ IsLoopNode(tree, Walk(tree, node)[k])
            /\ Walk(tree, node)[k] # node
    THEN << Finding("nested_loops",
                    <<"Nested loops detected (potential O(n^2) complexity)">>,
                    Lineno(tree, node), "moderate") >>
    ELSE <<>>

RECURSIVE NestedLoopFindingsOver(_, _, _)
NestedLoopFindingsOver(tree, order, i) ==
    IF i > Len(order) THEN <<>>
    ELSE NestedLoopFindingsOfNode(tree, order[i])
         \o NestedLoopFindingsOver(tree, order, i + 1)

\* for node in ast.walk(parsed): the nested loop check
NestedLoopFindings(tree) == NestedLoopFindingsOver(tree, Walk(tree, 0), 1)

analyze_performance_issues(issues, code) ==
    IF code.parse.ok
    THEN AppendIssues(issues, "performance", NestedLoopFindings(code.parse.tree))
    ELSE issues

\* ------------------------------------------------------------ review text
\* a string is the sequence of its pieces; "" is the empty sequence
Digits == <<"0", "1", "2", "3", "4", "5", "6", "7", "8", "9">>

RECURSIVE Decimal(_)
Decimal(n) ==
    IF n < 10 THEN <<Digits[n + 1]>> ELSE Decimal(n \div 10) \o <<Digits[(n % 10) + 1]>>

\* the line of a syntax_error whose e.lineno is None
NoneLine == 0

\* {issue['line']} of the f-string
FormatLineNumber(line) == IF line = NoneLine THEN <<"None">> ELSE Decimal(line)

\* f"- **{issue['type']}** (Line {issue['line']}, {issue['severity']}): {issue['message']}\n"
FormatIssue(issue) ==
    <<"- **", issue.type, "** (Line ">> \o FormatLineNumber(issue.line)
    \o <<", ", issue.severity, "): ">> \o issue.message \o <<"\n">>

RECURSIVE FormatIssues(_, _)
\* for issue in issues[template_type]: review += ...
FormatIssues(bucket, i) ==
    IF i > Len(bucket) THEN <<>>
    ELSE FormatIssue(bucket[i]) \o FormatIssues(bucket, i + 1)

IssuesHeader == <<"\n\n## Issues Found\n\n">>

NoIssuesLine == <<"No issues found for this category.\n">>

NoTemplateFound == <<"No template found">>

\* load_template: the content of {template_type}.md, "" if there is no such file
load_template(dir, template_type) ==
    IF template_type \in DOMAIN dir THEN dir[template_type] ELSE <<>>

\* the value generate_review returns
ReviewText(dir, issues, template_type) ==
    LET template == load_template(dir, template_type)
    IN  IF template = <<>>
        THEN NoTemplateFound
        ELSE template \o IssuesHeader \o
             (IF template_type \in DOMAIN issues /\ issues[template_type] # <<>>
              THEN FormatIssues(issues[template_type], 1)
              ELSE NoIssuesLine)

\* ------------------------------------------------------------------ inputs
Texts(maxLen) == UNION { [1..k -> Tokens] : k \in 0..maxLen }

SnakeName == [id |-> "process_data", chars |-> <<"lower", "under", "lower">>]

Def(name) == [kind |-> "FunctionDef", name |-> name]

Class(name) == [kind |-> "ClassDef", name |-> name]

Stmt(kind) == [kind |-> kind, name |-> NoName]

\* the files of the working directory
Corpus ==
    [ path \in {"empty.py", "commented.py", "example_code.py", "naming.py",
                "broken.py", "loops.py"} |->
        CASE path = "empty.py" -> Code(<<>>, Parsed(<<>>))
          [] path = "commented.py" ->
                \* # def unused():
                Code(<<"HASH", "SP", "KW", "SP", "W", "P", "NL">>, Parsed(<<>>))
          [] path = "example_code.py" ->
                \* password = "admin123"
                \* def connect_to_database(user):
                \*     query = f"SELECT * FROM users WHERE username = '{user}'"
                \* def process_data(data):
                \*     for i in data:
                \*         for j in data:
                \*             pass
                Code(<<"CRED", "NL",
                       "KW", "SP", "W", "P", "NL",
                       "SP", "W", "SP", "P", "SP", "SQL", "W", "P", "NL",
                       "KW", "SP", "W", "P", "NL",
                       "SP", "KW", "SP", "W", "SP", "W", "SP", "W", "P", "NL",
                       "SP", "KW", "SP", "W", "SP", "W", "SP", "W", "P", "NL",
                       "SP", "W", "NL">>,
                     Parsed(<< Node(0, Stmt("Expr"), 1),
                               Node(0, Def(SnakeName), 2),
                               Node(2, Stmt("Expr"), 3),
                               Node(0, Def(SnakeName), 4),
                               Node(4, Stmt("For"), 5),
                               Node(5, Stmt("For"), 6),
                               Node(6, Stmt("Expr"), 7) >>))
          [] path = "naming.py" ->
                \* class myClass:
                \*     def MyFunction(self):
                \*         pass
                Code(<<"KW", "SP", "W", "P", "NL",
                       "SP", "KW", "SP", "W", "P", "NL",
                       "SP", "W", "NL">>,
                     Parsed(<< Node(0, Class([id |-> "myClass",
                                              chars |-> <<"lower", "upper", "lower">>]), 1),
                               Node(1, Def([id |-> "MyFunction",
                                            chars |-> <<"upper", "lower", "upper", "lower">>]), 2),
                               Node(2, Stmt("Expr"), 3) >>))
          [] path = "broken.py" ->
                \* # if x
                \* token = 'abc'
                \* def (
                Code(<<"HASH", "SP", "KW", "SP", "W", "NL",
                       "CRED", "NL",
                       "KW", "SP", "P", "NL">>,
                     SyntaxError("invalid syntax (<unknown>, line 3)", 3))
          [] path = "loops.py" ->
                \* # for x in y:
                \* key = 'k'
                \* for a in b:
                \*     for c in d:
                \*         pass
                Code(<<"HASH", "SP", "KW", "SP", "W", "SP", "W", "SP", "W", "P", "NL",
                       "CRED", "NL",
                       "KW", "SP", "W", "SP", "W", "SP", "W", "P", "NL",
                       "SP", "KW", "SP", "W", "SP", "W", "SP", "W", "P", "NL",
                       "SP", "W", "NL">>,
                     Parsed(<< Node(0, Stmt("Expr"), 2),
                               Node(0, Stmt("For"), 3),
                               Node(2, Stmt("For"), 4),
                               Node(3, Stmt("Expr"), 5) >>)) ]

\* the paths analyze_file is called with; "missing.py" names no file
Paths == DOMAIN Corpus \cup {"missing.py"}

\* review_templates/: one non-empty template per category
DefaultTemplates ==
    [ c \in Categories |-> <<"# ", c, " review checklist\n">> ]

NoReview == [issues |-> EmptyIssues, template_type |-> "", out |-> <<>>]

\* ------------------------------------------------------------ the instance
\* __init__
Init ==
    /\ fs = Corpus
    /\ templates = DefaultTemplates
    /\ issues_found = 0
    /\ heap = (0 :> EmptyIssues)
    /\ calls = <<>>
    /\ review = NoReview

\* a dictionary object no reference points to yet
NewRef(h) == Cardinality(DOMAIN h)

\* analyze_file without the reset: the analyzers append to the old dictionary
ResetIssues_KeepOld(h, self, fresh) == [heap |-> h, ref |-> self]

\* "Reset issues": self.issues_found is bound to a new dictionary
ResetIssues(h, self, fresh) ==
    [heap |-> h @@ (fresh :> EmptyIssues), ref |-> fresh]

\* "Run different analyzers": the three analyzers append to the dictionary
\* self.issues_found refers to
RunAnalyzers(h, self, code) ==
    [h EXCEPT ![self] =
        analyze_performance_issues(
            analyze_security_issues(
                analyze_general_issues(@, code), code), code)]

Call(path, ok, ret, h) ==
    [path |-> path, ok |-> ok, ret |-> ret, result |-> h[ret]]

analyze_file(path) ==
    /\ Len(calls) < MaxCalls
    /\ IF path \notin DOMAIN fs
       THEN \* except FileNotFoundError: return self.issues_found
            /\ calls' = Append(calls, Call(path, FALSE, issues_found, heap))
            /\ UNCHANGED <<issues_found, heap>>
       ELSE LET reset == ResetIssues(heap, issues_found, NewRef(heap))
                after == RunAnalyzers(reset.heap, reset.ref, fs[path])
            IN  /\ issues_found' = reset.ref
                /\ heap' = after
                /\ calls' = Append(calls, Call(path, TRUE, reset.ref, after))
    /\ UNCHANGED <<fs, templates, review>>

generate_review(issues, template_type) ==
    /\ review' = [issues |-> issues, template_type |-> template_type,
                  out |-> ReviewText(templates, issues, template_type)]
    /\ UNCHANGED <<fs, templates, issues_found, heap, calls>>

\* main: the reviews of a result analyze_file returned
ReviewResult ==
    \E i \in 1..Len(calls), template_type \in Categories :
        generate_review(calls[i].result, template_type)

AnalyzeFile == \E path \in Paths : analyze_file(path)

Next == AnalyzeFile \/ ReviewResult

Spec == Init /\ [][Next]_vars

\* --------------------------------------- one analysis of one generated text
\* position k lies in a comment: after a # of its line
InComment(text, k) ==
    \E h \in 1..(k - 1) :
        text[h] = "HASH" /\ \A m \in h..(k - 1) : text[m] # "NL"

\* the positions of the tokens that are neither whitespace nor comment
CodePositions(text) ==
    { k \in 1..Len(text) :
        ~IsSpace(text[k]) /\ text[k] # "HASH" /\ ~InComment(text, k) }

\* what ast.parse may do with a text: return the tree of a file that holds no
\* compound statement, raise a SyntaxError at a line that holds code, or
\* raise the SyntaxError of a text with a null byte, which carries no line
ParseOutcomes(text) ==
    { Parsed(<<>>) }
    \cup { SyntaxError("invalid syntax", LineOfOffset(text, k)) : k \in CodePositions(text) }
    \cup { SyntaxError("source code string cannot contain null bytes", NoneLine) :
                k \in { m \in 1..Len(text) : text[m] = "P" } }

InitText ==
    /\ \E text \in Texts(MaxLen) :
            \E parse \in ParseOutcomes(text) : fs = ("a.py" :> Code(text, parse))
    /\ templates = DefaultTemplates
    /\ issues_found = 0
    /\ heap = (0 :> EmptyIssues)
    /\ calls = <<>>
    /\ review = NoReview

AnalyzeOnce == calls = <<>> /\ analyze_file("a.py")

NextText == AnalyzeOnce

SpecText == InitText /\ [][NextText]_vars

\* --------------------------------------- one analysis of one generated tree
\* the first line of a statement
HeaderOf(kind) ==
    CASE kind \in {"FunctionDef", "ClassDef", "While"} -> <<"KW", "SP", "W", "P">>
      [] kind = "For" -> <<"KW", "SP", "W", "SP", "W", "SP", "W", "P">>
      [] OTHER -> <<"W">>

Indent(depth) == [k \in 1..depth |-> "SP"]

RECURSIVE SourceFrom(_, _)
\* a text ast.parse turns into the tree: one line per node
SourceFrom(tree, i) ==
    IF i > Len(tree) THEN <<>>
    ELSE Indent(Cardinality(Ancestors(tree, i)) - 1) \o HeaderOf(tree[i].kind)
         \o <<"NL">> \o SourceFrom(tree, i + 1)

SourceOf(tree) == SourceFrom(tree, 1)

InitTree ==
    /\ \E tree \in Trees(MaxNodes) :
            fs = ("a.py" :> Code(SourceOf(tree), Parsed(tree)))
    /\ templates = DefaultTemplates
    /\ issues_found = 0
    /\ heap = (0 :> EmptyIssues)
    /\ calls = <<>>
    /\ review = NoReview

AnalyzeTree == calls = <<>> /\ analyze_file("a.py")

NextTree == AnalyzeTree

SpecTree == InitTree /\ [][NextTree]_vars

\* ------------------------------------------- one review of a given mapping
\* the content of a template file: an empty file or a file with text
TemplateTexts == { <<>>, <<"# checklist\n">> }

\* template directories: any of the three files may be missing
TemplateDirs == UNION { [present -> TemplateTexts] : present \in SUBSET Categories }

SampleFindings ==
    { Finding("hardcoded_credentials", <<"Hardcoded credentials detected">>, 12, "critical"),
      SyntaxErrorFinding(SyntaxError("source code string cannot contain null bytes", NoneLine)) }

Buckets(maxIssues) == UNION { [1..k -> SampleFindings] : k \in 0..maxIssues }

\* the issues argument: any mapping from some categories to findings
IssueMaps == UNION { [present -> Buckets(MaxIssues)] : present \in SUBSET Categories }

InitReview ==
    /\ fs = Corpus
    /\ templates \in TemplateDirs
    /\ issues_found = 0
    /\ heap = (0 :> EmptyIssues)
    /\ calls = <<>>
    /\ review = NoReview

ReviewOnce ==
    /\ review = NoReview
    /\ \E issues \in IssueMaps, template_type \in Categories :
            generate_review(issues, template_type)

NextReview == ReviewOnce

SpecReview == InitReview /\ [][NextReview]_vars

\* ------------------------------------------------------------------ claims
Count(f, findings) == Cardinality({ k \in 1..Len(findings) : findings[k] = f })

AllFindings(result) == result["general"] \o result["security"] \o result["performance"]

\* the lines of the findings of one type in a bucket, in bucket order
RECURSIVE LinesOfType(_, _, _)
LinesOfType(bucket, type, i) ==
    IF i > Len(bucket) THEN <<>>
    ELSE (IF bucket[i].type = type THEN <<bucket[i].line>> ELSE <<>>)
         \o LinesOfType(bucket, type, i + 1)

\* every finding a detector reports for one input
FindingsOf(code) ==
    CommentedCodeFindings(code.text)
    \o (IF code.parse.ok
        THEN NamingFindings(code.parse.tree) \o NestedLoopFindings(code.parse.tree)
        ELSE <<SyntaxErrorFinding(code.parse)>>)
    \o CredentialFindings(code.text) \o SqlFindings(code.text)

\* C1: the result of a call that read its file holds only findings detected
\* in that file, each no more often than it was detected there: nothing
\* found by an earlier call is left in it.
C1_OnlyThisCallsFindings ==
    \A i \in 1..Len(calls) :
        calls[i].ok =>
            \A k \in 1..Len(AllFindings(calls[i].result)) :
                Count(AllFindings(calls[i].result)[k], AllFindings(calls[i].result))
                    <= Count(AllFindings(calls[i].result)[k], FindingsOf(fs[calls[i].path]))

\* C1 witness: two successful calls on different files, the earlier one with a
\* finding that the later file does not have.
C1_Witness ==
    \E i \in 1..Len(calls), j \in 1..Len(calls) :
        /\ i < j /\ calls[i].ok /\ calls[j].ok
        /\ calls[i].path # calls[j].path
        /\ AllFindings(calls[j].result) # <<>>
        /\ \E k \in 1..Len(AllFindings(calls[i].result)) :
                Count(AllFindings(calls[i].result)[k], FindingsOf(fs[calls[j].path])) = 0

\* C2: a call on a file that cannot be read returns a value with no finding.
C2_FailedCallReturnsNoFinding ==
    \A i \in 1..Len(calls) :
        ~calls[i].ok => AllFindings(calls[i].result) = <<>>

RECURSIVE WithoutType(_, _, _)
WithoutType(bucket, type, i) ==
    IF i > Len(bucket) THEN <<>>
    ELSE (IF bucket[i].type = type THEN <<>> ELSE <<bucket[i]>>)
         \o WithoutType(bucket, type, i + 1)

\* C3: when the text does not parse, the result is what the three text
\* detectors find in the text plus exactly one syntax_error finding, in the
\* general bucket with severity critical; no naming_convention and no
\* nested_loops finding.
C3_ParseFailure ==
    \A i \in 1..Len(calls) :
        (calls[i].ok /\ ~fs[calls[i].path].parse.ok) =>
            LET text == fs[calls[i].path].text
                result == calls[i].result
            IN  /\ WithoutType(result["general"], "syntax_error", 1)
                        = CommentedCodeFindings(text)
                /\ Cardinality({ k \in 1..Len(result["general"]) :
                        result["general"][k].type = "syntax_error" }) = 1
                /\ \A k \in 1..Len(result["general"]) :
                        result["general"][k].type = "syntax_error"
                            => result["general"][k].severity = "critical"
                /\ result["security"] = CredentialFindings(text) \o SqlFindings(text)
                /\ result["performance"] = <<>>
                /\ \A k \in 1..Len(AllFindings(result)) :
                        AllFindings(result)[k].type
                            \notin {"naming_convention", "nested_loops"}

\* C3 witness: a text that does not parse and holds commented-out code and a
\* hardcoded credential has been analyzed.
C3_Witness ==
    \E i \in 1..Len(calls) :
        /\ calls[i].ok /\ ~fs[calls[i].path].parse.ok
        /\ CommentedCodeFindings(fs[calls[i].path].text) # <<>>
        /\ calls[i].result["security"] # <<>>

\* the bucket a finding type belongs to
CategoryOfType(type) ==
    CASE type \in {"commented_code", "naming_convention", "syntax_error"} -> "general"
      [] type \in {"hardcoded_credentials", "sql_injection"} -> "security"
      [] type = "nested_loops" -> "performance"
      [] OTHER -> "none"

\* C8: issues_found always has exactly the buckets general, security and
\* performance, and every finding sits in the bucket of its category.
C8_BucketsMatchCategories ==
    /\ DOMAIN heap[issues_found] = Categories
    /\ \A c \in Categories :
        \A k \in 1..Len(heap[issues_found][c]) :
            CategoryOfType(heap[issues_found][c][k].type) = c

\* C8 witness: after an analysis all three buckets hold findings.
C8_Witness ==
    /\ calls # <<>>
    /\ \A c \in Categories : heap[issues_found][c] # <<>>

\* C10: a result returned earlier is not changed by a later call, and no two
\* calls return the same object.
C10_FreshResultPerCall ==
    \A i \in 1..Len(calls), j \in 1..Len(calls) :
        i < j =>
            /\ heap[calls[i].ret] = calls[i].result
            /\ calls[i].ret # calls[j].ret

\* the tokens between the start of the line of position q and q are blanks
LeadingBlank(text, q) ==
    \E p \in 1..q :
        /\ AtLineStart(text, p)
        /\ \A k \in p..(q - 1) : text[k] = "SP"

RECURSIVE SkipBlank(_, _)
\* the first position from p on that holds no blank of the line
SkipBlank(text, p) ==
    IF p <= Len(text) /\ text[p] = "SP" THEN SkipBlank(text, p + 1) ELSE p

\* position q holds the # of a comment that starts its line (after optional
\* leading whitespace) and is followed on that line by a keyword as a whole word
CommentedKeywordAt(text, q) ==
    /\ text[q] = "HASH"
    /\ LeadingBlank(text, q)
    /\ SkipBlank(text, q + 1) <= Len(text)
    /\ text[SkipBlank(text, q + 1)] = "KW"
    /\ \/ SkipBlank(text, q + 1) = Len(text)
       \/ ~IsWord(text[SkipBlank(text, q + 1) + 1])

\* the numbers of the lines that hold a commented-out keyword
CommentedLines(text) ==
    { LineOfOffset(text, q) : q \in { p \in 1..Len(text) : CommentedKeywordAt(text, p) } }

\* C9: there is exactly one commented_code finding for every line that holds
\* a commented-out keyword, its line is the number of that line, and there is
\* no other commented_code finding.
C9_CommentedCodeLines ==
    \A i \in 1..Len(calls) :
        calls[i].ok =>
            LET text == fs[calls[i].path].text
                lines == LinesOfType(calls[i].result["general"], "commented_code", 1)
            IN  /\ Len(lines) = Cardinality(CommentedLines(text))
                /\ { lines[k] : k \in 1..Len(lines) } = CommentedLines(text)

\* node has a loop node among its descendants
HasLoopDescendant(tree, node) ==
    \E m \in 1..Len(tree) : node \in Ancestors(tree, m) /\ tree[m].kind \in LoopKinds

\* C6: for a text that parses, the performance bucket holds exactly one
\* nested_loops finding (severity moderate, line of the loop) for every loop
\* node with a loop node among its descendants, and nothing else.
C6_NestedLoops ==
    \A i \in 1..Len(calls) :
        (calls[i].ok /\ fs[calls[i].path].parse.ok) =>
            LET tree == fs[calls[i].path].parse.tree
                perf == calls[i].result["performance"]
                outer == { n \in 1..Len(tree) :
                            tree[n].kind \in LoopKinds /\ HasLoopDescendant(tree, n) }
            IN  /\ Len(perf) = Cardinality(outer)
                /\ \A n \in outer :
                    Cardinality({ k \in 1..Len(perf) :
                        /\ perf[k].type = "nested_loops"
                        /\ perf[k].severity = "moderate"
                        /\ perf[k].line = Lineno(tree, n) }) = 1

\* C7: in every bucket of a result the findings of one type appear with
\* non-decreasing line numbers.
C7_SourceOrderPerDetector ==
    \A i \in 1..Len(calls) :
        \A c \in Categories :
            \A k \in 1..Len(calls[i].result[c]), m \in 1..Len(calls[i].result[c]) :
                (k < m /\ calls[i].result[c][k].type = calls[i].result[c][m].type)
                    => calls[i].result[c][k].line <= calls[i].result[c][m].line

IsPrefix(pre, text) ==
    /\ Len(pre) <= Len(text)
    /\ SubSeq(text, 1, Len(pre)) = pre

\* C4: generate_review returns "No template found" if there is no template
\* file for the category, and for every template file that exists returns its
\* text, then the header, then the listing.
C4_TemplateFallback ==
    review # NoReview =>
        IF review.template_type \in DOMAIN templates
        THEN /\ IsPrefix(templates[review.template_type] \o IssuesHeader, review.out)
             /\ Len(review.out) > Len(templates[review.template_type] \o IssuesHeader)
        ELSE review.out = NoTemplateFound

\* the part of a review after its "## Issues Found" header; no header, no listing
ListingOf(out) ==
    IF \E k \in 1..Len(out) : out[k] = IssuesHeader[1]
    THEN LET h == CHOOSE k \in 1..Len(out) :
                    /\ out[k] = IssuesHeader[1]
                    /\ \A m \in 1..(k - 1) : out[m] # IssuesHeader[1]
         IN  <<"listing">> \o SubSeq(out, h + 1, Len(out))
    ELSE <<"no header">>

\* C5: for a template file that exists, the listing after the header has one
\* line per finding of the category's bucket, in bucket order, or the single
\* line "No issues found for this category." if the bucket is empty or absent.
C5_Listing ==
    (review # NoReview /\ review.template_type \in DOMAIN templates) =>
        ListingOf(review.out) =
            <<"listing">> \o
            (IF /\ review.template_type \in DOMAIN review.issues
                /\ review.issues[review.template_type] # <<>>
             THEN FormatIssues(review.issues[review.template_type], 1)
             ELSE NoIssuesLine)

====
